---- MODULE Spec2Model ----
(***************************************************************************)
(* Matching-and-dispatch engine of OneBlood.                               *)
(*                                                                         *)
(*  - the Assignment Optimizer (AIMatcher.optimizeDonorAssignment,         *)
(*    backend/src/services/aiMatcher.js);                                  *)
(*  - the BloodRequest state machine as driven by the socket handlers      *)
(*    (socket service: accept_request, donor_response, the expiry sweep)   *)
(*    and by the REST routes (POST /:id/accept, PUT /:id/status,           *)
(*    POST /create) of backend/src/routes/requests.js.                     *)
(*                                                                         *)
(* Specifications sharing the module: SpecOpt runs one optimizer batch on   *)
(* inputs drawn at Init; Spec runs the request store with interleaved      *)
(* handlers and the sweeper; SpecConn runs the connection registry and the *)
(* rooms of the socket service; SpecRetr runs the creation of a request    *)
(* with Candidate Retrieval against a donor collection whose availability  *)
(* flags change; SpecRank runs Candidate Retrieval on collections larger   *)
(* than the caps; SpecScore calls the Scoring Engine on drawn inputs;       *)
(* SpecScenario runs Candidate Retrieval on the two donors of the          *)
(* end-to-end scenario; SpecFlights runs two optimizer calls in flight     *)
(* together; SpecSweep runs the sweeper alone with saves that may fail.    *)
(***************************************************************************)
EXTENDS Naturals, Integers, Sequences, FiniteSets, TLC

VARIABLES
    \* ---- Assignment Optimizer (one call of optimizeDonorAssignment) ----
    requests,      \* the batch passed in: sequence of [id, urgency]
    retrieval,     \* what findMatchingDonors returns for each batch position
    allMatches,    \* the local allMatches array
    optPc,         \* "collect" | "done"
    processed,     \* request ids in the order the greedy loop visited them
    results,       \* the returned array of [donorId, requestId]
    \* ---- Assignment Optimizer (two calls in flight) ----
    inFlight,      \* call id -> the locals of that call of optimizeDonorAssignment
    \* ---- request store and dispatch ----
    db,            \* BloodRequest collection: request id -> document
    now,           \* wall clock, in ticks
    calls,         \* handler invocations: call id -> record
    sweep,         \* documents the running sweep still has to cancel
    emitted,       \* events published by the last step: set of [event, room, req]
    expiredPublished, \* requests for which request_expired was ever published
    responseHistory,  \* Donor.responseHistory: donor id -> sequence
    \* ---- connection registry and rooms ----
    sockets,            \* socket id -> connection record (state, identity, rooms)
    connectedHospitals, \* Map hospitalId -> socket id
    connectedDonors,    \* Map donorId -> socket id
    locations,          \* stored location.coordinates of each donor and hospital
    locUpdates,         \* update_location handlers: slot -> record
    \* ---- Candidate Retrieval and scoring ----
    donorDb,       \* Donor collection as the geo index lists it from the
                   \* request's point: sequence of donors, nearest first
    creation,      \* the handler creating the request (emergency_request or
                   \* POST /create): record
    availUpdates,  \* update_availability handlers: slot -> record
    scoreInput,    \* a donor and a request handed to calculateMatchScore
    scores         \* results of the calls of calculateMatchScore made so far

optVars == <<requests, retrieval, allMatches, optPc, processed, results>>
dispVars == <<db, now, calls, sweep, emitted, expiredPublished, responseHistory>>
connVars == <<sockets, connectedHospitals, connectedDonors, locations, locUpdates>>
retrVars == <<donorDb, creation, availUpdates, scoreInput, scores>>
vars == <<requests, retrieval, allMatches, optPc, processed, results,
          db, now, calls, sweep, emitted, expiredPublished, responseHistory,
          sockets, connectedHospitals, connectedDonors, locations, locUpdates,
          donorDb, creation, availUpdates, scoreInput, scores, inFlight>>

\* What the steps of one part of the engine leave alone.
outsideOpt == <<dispVars, connVars, retrVars, inFlight>>
outsideDisp == <<optVars, connVars, retrVars, inFlight>>
outsideConn == <<optVars, dispVars, retrVars, inFlight>>
outsideRetr == <<optVars, connVars, calls, sweep, expiredPublished, responseHistory,
                 inFlight>>
outsideFlights == <<optVars, dispVars, connVars, retrVars>>

(***************************************************************************)
(* Bounds of the model.                                                    *)
(***************************************************************************)
MaxBatch == 3       \* requests in one optimizer batch
MaxCand == 2        \* length of a ranked candidate list
MaxCalls == 2       \* handler invocations in one run of the dispatch fabric
MaxTime == 2        \* last clock tick
MaxRequests == 1    \* BloodRequest documents
MaxFlightBatch == 2 \* requests in a batch of two optimizer calls in flight
MaxSwept == 2       \* BloodRequest documents in the runs of the sweeper alone

Donors == {"D1", "D2"}
Hospitals == {"H1", "H2"}          \* verified hospitals
UnverifiedHospitals == {"HU"}      \* exist, verified = false
Urgencies == {"critical", "urgent", "normal"}
RequestIds == 1..MaxRequests
Null == "null"

(***************************************************************************)
(* Generic helpers.                                                        *)
(***************************************************************************)
Range(s) == {s[i] : i \in 1..Len(s)}

\* Sequences over S of length at most n.
SeqUpTo(S, n) == UNION {[1..k -> S] : k \in 0..n}

\* Sequences without repetition.
Injective(s) == \A i, j \in 1..Len(s) : i # j => s[i] # s[j]

(***************************************************************************)
(* Assignment Optimizer.                                                   *)
(***************************************************************************)

\* aiMatcher.js:326  priority from urgency; anything else counts as normal.
Priority(urgency) ==
    IF urgency = "critical" THEN 3 ELSE IF urgency = "urgent" THEN 2 ELSE 1

\* The comparator with its operands swapped (a.priority - b.priority).
ComesAfterAscending(a, b) == a.priority - b.priority > 0

\* A comparator that also moves a behind b when their priorities are equal.
ComesAfterOrTies(a, b) == b.priority - a.priority >= 0

\* aiMatcher.js:332  the comparator (a, b) => b.priority - a.priority:
\* TRUE when a must come after b.
ComesAfter(a, b) == b.priority - a.priority > 0

\* Array.prototype.sort with that comparator (stable): insertion of x into an
\* already sorted sequence, behind every element it does not have to precede.
RECURSIVE InsertSorted(_, _)
InsertSorted(x, s) ==
    IF s = <<>> THEN <<x>>
    ELSE IF ComesAfter(Head(s), x) THEN <<x>> \o s
    ELSE <<Head(s)>> \o InsertSorted(x, Tail(s))

RECURSIVE SortByPriority(_)
SortByPriority(s) ==
    IF s = <<>> THEN <<>>
    ELSE InsertSorted(s[Len(s)], SortByPriority(SubSeq(s, 1, Len(s) - 1)))

\* Map.has on the assignments map (kept as its entries in insertion order).
HasDonor(assignments, donorId) ==
    \E k \in 1..Len(assignments) : assignments[k].donorId = donorId

\* Map.set: a key already present keeps its place and takes the new value.
MapSet(assignments, donorId, requestId) ==
    IF HasDonor(assignments, donorId)
    THEN [k \in 1..Len(assignments) |->
            IF assignments[k].donorId = donorId
            THEN [donorId |-> donorId, requestId |-> requestId]
            ELSE assignments[k]]
    ELSE Append(assignments, [donorId |-> donorId, requestId |-> requestId])

\* The last donor of the list that passes !assignments.has instead of the
\* first; 0 when there is none.
FirstFreeFromEnd(matches, assignments, k) ==
    LET free == {j \in k..Len(matches) : ~HasDonor(assignments, matches[j])}
    IN  IF free = {} THEN 0 ELSE CHOOSE j \in free : \A i \in free : i <= j

\* aiMatcher.js:342-350  first donor of the list that passes !assignments.has;
\* 0 when the loop ends without a break.
RECURSIVE FirstFree(_, _, _)
FirstFree(matches, assignments, k) ==
    IF k > Len(matches) THEN 0
    ELSE IF ~HasDonor(assignments, matches[k]) THEN k
    ELSE FirstFree(matches, assignments, k + 1)

\* The greedy loop with the map keyed by request instead of by donor: every
\* request takes its top candidate, whoever else holds it.
RECURSIVE GreedyKeyedByRequest(_, _, _)
GreedyKeyedByRequest(sorted, k, st) ==
    IF k > Len(sorted) THEN st
    ELSE
        LET rm == sorted[k]
        IN  IF rm.matches = <<>>
            THEN GreedyKeyedByRequest(sorted, k + 1,
                    [st EXCEPT !.order = Append(st.order, rm.requestId)])
            ELSE GreedyKeyedByRequest(sorted, k + 1,
                    [assignments |->
                        Append(st.assignments,
                               [donorId |-> rm.matches[1],
                                requestId |-> rm.requestId]),
                     assignedRequests |->
                        st.assignedRequests \cup {rm.requestId},
                     order |-> Append(st.order, rm.requestId)])

\* aiMatcher.js:338-351  the greedy loop over the sorted allMatches, from
\* position k on; st = [assignments, assignedRequests, order].
RECURSIVE Greedy(_, _, _)
Greedy(sorted, k, st) ==
    IF k > Len(sorted) THEN st
    ELSE
        LET rm == sorted[k]
        IN  IF rm.requestId \in st.assignedRequests
            THEN Greedy(sorted, k + 1, st)
            ELSE
                LET f == FirstFree(rm.matches, st.assignments, 1)
                    visited == Append(st.order, rm.requestId)
                IN  IF f = 0
                    THEN Greedy(sorted, k + 1,
                                [st EXCEPT !.order = visited])
                    ELSE Greedy(sorted, k + 1,
                                [assignments |->
                                    MapSet(st.assignments, rm.matches[f],
                                           rm.requestId),
                                 assignedRequests |->
                                    st.assignedRequests \cup {rm.requestId},
                                 order |-> visited])

EmptyGreedy == [assignments |-> <<>>, assignedRequests |-> {}, order |-> <<>>]

(***************************************************************************)
(* Two calls of optimizeDonorAssignment in flight.  Each call has its own   *)
(* locals; a call gives way to the other at every await of its first loop. *)
(***************************************************************************)
FlightIds == {1, 2}

OtherFlight(b) == 3 - b

\* A call that was never made.
IdleFlight ==
    [requests |-> <<>>, retrieval |-> <<>>, allMatches |-> <<>>, pc |-> "done",
     maps |-> EmptyGreedy, results |-> <<>>, overlapped |-> FALSE]

NoFlights == [b \in FlightIds |-> IdleFlight]

\* The maps of a call handed on from what another call left.
MapsLeftBehind(left) == left

\* aiMatcher.js:334-335  const assignments = new Map(), const assignedRequests
\* = new Set(): created by the call, whatever another call left.
NewMaps(left) == EmptyGreedy

\* aiMatcher.js:322-329  one turn of the first loop of call b.
FlightCollect(b) ==
    /\ inFlight[b].pc = "collect"
    /\ Len(inFlight[b].allMatches) < Len(inFlight[b].requests)
    /\ LET i == Len(inFlight[b].allMatches) + 1
           other == inFlight[OtherFlight(b)]
       IN  inFlight' = [inFlight EXCEPT
              ![b].allMatches =
                  Append(@, [requestId |-> inFlight[b].requests[i].id,
                             priority |-> Priority(inFlight[b].requests[i].urgency),
                             matches |-> inFlight[b].retrieval[i]]),
              ![b].overlapped =
                  @ \/ (other.pc = "collect" /\ other.allMatches # <<>>)]

\* aiMatcher.js:331-363  sort, greedy loop and conversion of call b.
FlightAssign(b) ==
    /\ inFlight[b].pc = "collect"
    /\ Len(inFlight[b].allMatches) = Len(inFlight[b].requests)
    /\ LET st == Greedy(SortByPriority(inFlight[b].allMatches), 1,
                        NewMaps(inFlight[OtherFlight(b)].maps))
       IN  inFlight' = [inFlight EXCEPT
              ![b].maps = st, ![b].results = st.assignments, ![b].pc = "done"]

NextFlights ==
    \/ (\E b \in FlightIds : FlightCollect(b)) /\ UNCHANGED outsideFlights
    \/ (\E b \in FlightIds : FlightAssign(b)) /\ UNCHANGED outsideFlights

\* Ranked candidate lists findMatchingDonors can return: distinct donors of
\* one query result, possibly none (also its answer when the query throws).
CandidateLists == {s \in SeqUpTo(Donors, MaxCand) : Injective(s)}

\* A batch: requests with distinct ids (documents of one collection); the id
\* of a request is its position in the batch as passed in.
Batches ==
    UNION {[1..n -> [urgency : Urgencies]] : n \in 0..MaxBatch}

\* The batches call b can be handed, with what findMatchingDonors returns
\* for each request; the two calls work on different requests, of the
\* highest and the lowest urgency.
FlightUrgencies == {"critical", "normal"}

FlightStarts(b) ==
    UNION {{[IdleFlight EXCEPT
                !.requests = [i \in 1..n |->
                                [id |-> (b - 1) * MaxFlightBatch + i,
                                 urgency |-> urgencies[i]]],
                !.retrieval = lists,
                !.pc = "collect"] :
              urgencies \in [1..n -> FlightUrgencies], lists \in [1..n -> CandidateLists]} :
           n \in 0..MaxFlightBatch}

InitOpt ==
    /\ \E b \in Batches :
          requests = [i \in 1..Len(b) |-> [id |-> i, urgency |-> b[i].urgency]]
    /\ \E n \in 0..MaxBatch :
          /\ n = Len(requests)
          /\ retrieval \in [1..n -> CandidateLists]
    /\ allMatches = <<>>
    /\ optPc = "collect"
    /\ processed = <<>>
    /\ results = <<>>
    /\ inFlight = NoFlights

\* aiMatcher.js:322-329  one turn of the first loop: await findMatchingDonors,
\* push {requestId, priority, matches}.
OptCollect ==
    /\ optPc = "collect"
    /\ Len(allMatches) < Len(requests)
    /\ LET i == Len(allMatches) + 1
       IN  allMatches' = Append(allMatches,
                                [requestId |-> requests[i].id,
                                 priority |-> Priority(requests[i].urgency),
                                 matches |-> retrieval[i]])
    /\ UNCHANGED <<requests, retrieval, optPc, processed, results>>

\* aiMatcher.js:331-363  sort, greedy loop and conversion: synchronous code,
\* so one step.
OptAssign ==
    /\ optPc = "collect"
    /\ Len(allMatches) = Len(requests)
    /\ LET st == Greedy(SortByPriority(allMatches), 1, EmptyGreedy)
       IN  /\ results' = st.assignments
           /\ processed' = st.order
    /\ optPc' = "done"
    /\ UNCHANGED <<requests, retrieval, allMatches>>

NextOpt ==
    \/ OptCollect /\ UNCHANGED outsideOpt
    \/ OptAssign /\ UNCHANGED outsideOpt

(***************************************************************************)
(* Request store.  A document is read into a handler's local copy and      *)
(* written back by save(), which sends only what the handler changed on    *)
(* its copy: $set for a scalar path whose value differs from the loaded    *)
(* one, an atomic $push (with $inc of the version key) for Array.push, and *)
(* a positional $set guarded by the loaded version key for a change to an  *)
(* element of a document array.                                            *)
(***************************************************************************)
ExpiryTicks == 1    \* BloodRequest.js:93  expiresAt = creation + 24 h (one tick = 24 h)

Statuses == {"pending", "accepted", "completed", "cancelled"}
Responses == {"accepted", "declined"}
CallIds == 1..MaxCalls

\* A slot of the collection that holds no document yet.
NoDoc == [status |-> "absent", hospitalId |-> Null, acceptedHospitals |-> <<>>,
          matchedDonors |-> <<>>, expiresAt |-> 0, v |-> 0]

\* BloodRequest.js:3-95  a new document with the schema defaults.
NewDoc(matched, t) ==
    [status |-> "pending", hospitalId |-> Null, acceptedHospitals |-> <<>>,
     matchedDonors |-> matched, expiresAt |-> t + ExpiryTicks, v |-> 0]

\* BloodRequest.js:120-122  isExpired(): new Date() > this.expiresAt
IsExpired(doc, t) == t > doc.expiresAt

\* Array.prototype.includes on acceptedHospitals
Includes(s, x) == \E i \in 1..Len(s) : s[i] = x

HospitalRoom(h) == [type |-> "hospital", id |-> h]
DonorRoom(d) == [type |-> "donor", id |-> d]

\* io.to(room).emit(event, {requestId}), published by call `by` (0: the sweeper
\* or the handler creating the request)
Event(e, room, r, by) == [event |-> e, room |-> room, req |-> r, by |-> by]

IdleCall == [kind |-> "idle", req |-> 0, actor |-> Null, arg |-> Null,
             pc |-> "idle", snap |-> NoDoc, sentActive |-> FALSE,
             sentIncluded |-> FALSE,
             readActive |-> FALSE, readIncluded |-> FALSE,
             wrote |-> FALSE, transitioned |-> FALSE, reply |-> "none"]

(***************************************************************************)
(* Dispatch fabric: request creation, the handlers and the sweeper.  A     *)
(* handler is a call: it is received (Start), reads the request document   *)
(* (findById), and writes it back (save); other calls and the sweeper may  *)
(* run between any two of these steps.  A finished call keeps its record.  *)
(***************************************************************************)
Started(c) == calls[c].pc # "idle"

\* Lists of matched donors a new request can get from Candidate Retrieval.
MatchedLists ==
    {[k \in 1..Len(s) |-> [donorId |-> s[k], response |-> "pending"]] :
        s \in CandidateLists}

DonorIdsOf(matched) == {matched[k].donorId : k \in 1..Len(matched)}

\* socket service:142-216 (emergency_request: no matched donors are stored)
\* and routes/requests.js:83-109 (POST /create: the retrieval result is stored
\* as matchedDonors).
CreateRequest(r, matched) ==
    /\ db[r].status = "absent"
    /\ \A q \in RequestIds : q < r => db[q].status # "absent"
    /\ db' = [db EXCEPT ![r] = NewDoc(matched, now)]
    /\ emitted' = {}
    /\ UNCHANGED <<now, calls, sweep, expiredPublished, responseHistory>>

\* The clock; expiresAt never changes.
Tick ==
    /\ now < MaxTime
    /\ now' = now + 1
    /\ emitted' = {}
    /\ UNCHANGED <<db, calls, sweep, expiredPublished, responseHistory>>

\* An inbound event or HTTP request is received.
Start(c, kind, r, actor, arg) ==
    /\ calls[c].pc = "idle"
    /\ \A b \in CallIds : b < c => Started(b)
    /\ calls' = [calls EXCEPT ![c] =
                    [IdleCall EXCEPT !.kind = kind, !.req = r,
                                     !.actor = actor, !.arg = arg,
                                     !.pc = "read",
                                     !.sentActive =
                                        /\ db[r].status = "pending"
                                        /\ ~IsExpired(db[r], now),
                                     !.sentIncluded =
                                        Includes(db[r].acceptedHospitals, actor)]]
    /\ emitted' = {}
    /\ UNCHANGED <<db, now, sweep, expiredPublished, responseHistory>>

StartAccept(c) ==
    \E r \in RequestIds, h \in Hospitals :
        Start(c, "accept_request", r, h, Null)

\* socket service:73-75, 221  accept_request is wired on every socket; on a
\* donor's connection socket.hospitalId is undefined (held as Null).
StartAcceptOnDonorSocket(c) ==
    \E r \in RequestIds :
        Start(c, "accept_request", r, Null, Null)

StartRestAccept(c) ==
    \E r \in RequestIds, h \in Hospitals \cup UnverifiedHospitals :
        Start(c, "rest_accept", r, h, Null)

StartPutStatus(c) ==
    \E r \in RequestIds, st \in Statuses :
        Start(c, "put_status", r, Null, st)

StartDonorResponse(c) ==
    \E r \in RequestIds, d \in Donors, resp \in Responses :
        Start(c, "donor_response", r, d, resp)

\* The call has read doc: what it saw is kept with the call.
Loaded(c, doc) ==
    [calls[c] EXCEPT !.pc = "write", !.snap = doc,
                     !.readActive = doc.status = "pending" /\ ~IsExpired(doc, now),
                     !.readIncluded = Includes(doc.acceptedHospitals, calls[c].actor)]

\* The call is over: its local copy is dropped, its answer kept.
Finish(call, reply, wrote, transitioned) ==
    [call EXCEPT !.pc = "done", !.snap = NoDoc, !.reply = reply,
                 !.wrote = wrote, !.transitioned = transitioned]

\* request.matchedDonors.forEach(... emit('request_accepted') ...)
AcceptedEvents(c, doc) ==
    {Event("request_accepted", DonorRoom(d), calls[c].req, c) :
        d \in DonorIdsOf(doc.matchedDonors)}

\* socket service:238-254  Hospital.findById(undefined) gives null, and the
\* first hospital.name of the forEach throws into the catch before anything
\* is emitted.
NotifyThrows(c, doc) == calls[c].actor = Null /\ doc.matchedDonors # <<>>

\* socket service:224-235  findById; not found is answered with an error; a
\* hospital already in acceptedHospitals skips the save and goes on to
\* notify the matched donors and to acknowledge (247-261).
AcceptRead(c) ==
    /\ calls[c].pc = "read" /\ calls[c].kind = "accept_request"
    /\ LET doc == db[calls[c].req]
       IN  IF doc.status = "absent"
           THEN /\ calls' = [calls EXCEPT ![c] = Finish(calls[c], "error", FALSE, FALSE)]
                /\ emitted' = {}
           ELSE IF Includes(doc.acceptedHospitals, calls[c].actor)
           THEN /\ calls' = [calls EXCEPT ![c] =
                               Finish(Loaded(c, doc),
                                      IF NotifyThrows(c, doc) THEN "error" ELSE "ok",
                                      FALSE, FALSE)]
                /\ emitted' = IF NotifyThrows(c, doc) THEN {}
                              ELSE AcceptedEvents(c, doc)
           ELSE /\ calls' = [calls EXCEPT ![c] =
                               Loaded(c, doc)]
                /\ emitted' = {}
    /\ UNCHANGED <<db, now, sweep, expiredPublished, responseHistory>>

\* What save() sends after push(hospitalId); hospitalId = ...; status =
\* 'accepted' on the loaded copy: $push, and $set of the paths whose value
\* changed on the copy.
SaveAccept(stored, snap, h) ==
    [stored EXCEPT
        !.acceptedHospitals = Append(stored.acceptedHospitals, h),
        !.hospitalId = IF snap.hospitalId # h THEN h ELSE stored.hospitalId,
        !.status = IF snap.status # "accepted" THEN "accepted" ELSE stored.status,
        !.v = stored.v + 1]

\* socket service:230-261  the save, then the notification of the matched
\* donors of the loaded copy and the acknowledgement.
AcceptWrite(c) ==
    /\ calls[c].pc = "write" /\ calls[c].kind = "accept_request"
    /\ LET r == calls[c].req
           after == SaveAccept(db[r], calls[c].snap, calls[c].actor)
       IN  /\ db' = [db EXCEPT ![r] = after]
           /\ calls' = [calls EXCEPT ![c] =
                           Finish(calls[c],
                                  IF NotifyThrows(c, calls[c].snap)
                                  THEN "error" ELSE "ok",
                                  TRUE,
                                  db[r].status = "pending"
                                  /\ after.status = "accepted")]
           /\ emitted' = IF NotifyThrows(c, calls[c].snap) THEN {}
                         ELSE AcceptedEvents(c, calls[c].snap)
    /\ UNCHANGED <<now, sweep, expiredPublished, responseHistory>>

\* routes/requests.js:256-296  the checks of POST /:id/accept on the loaded
\* document, in the order of the code; each failure is answered 4xx.
RestAcceptRejects(doc, h, t) ==
    \/ doc.status = "absent"
    \/ doc.status # "pending"
    \/ IsExpired(doc, t)
    \/ h \notin Hospitals
    \/ Includes(doc.acceptedHospitals, h)

RestAcceptRead(c) ==
    /\ calls[c].pc = "read" /\ calls[c].kind = "rest_accept"
    /\ LET doc == db[calls[c].req]
       IN  IF RestAcceptRejects(doc, calls[c].actor, now)
           THEN calls' = [calls EXCEPT ![c] =
                             Finish(Loaded(c, doc), "error", FALSE, FALSE)]
           ELSE calls' = [calls EXCEPT ![c] =
                             Loaded(c, doc)]
    /\ emitted' = {}
    /\ UNCHANGED <<db, now, sweep, expiredPublished, responseHistory>>

\* routes/requests.js:298-328  the save and the 200 answer.
RestAcceptWrite(c) ==
    /\ calls[c].pc = "write" /\ calls[c].kind = "rest_accept"
    /\ LET r == calls[c].req
           after == SaveAccept(db[r], calls[c].snap, calls[c].actor)
       IN  /\ db' = [db EXCEPT ![r] = after]
           /\ calls' = [calls EXCEPT ![c] =
                           Finish(calls[c], "ok", TRUE,
                                  db[r].status = "pending"
                                  /\ after.status = "accepted")]
    /\ emitted' = {}
    /\ UNCHANGED <<now, sweep, expiredPublished, responseHistory>>

\* routes/requests.js:402-408  findById of PUT /:id/status.
PutStatusRead(c) ==
    /\ calls[c].pc = "read" /\ calls[c].kind = "put_status"
    /\ LET doc == db[calls[c].req]
       IN  IF doc.status = "absent"
           THEN calls' = [calls EXCEPT ![c] = Finish(calls[c], "error", FALSE, FALSE)]
           ELSE calls' = [calls EXCEPT ![c] =
                             Loaded(c, doc)]
    /\ emitted' = {}
    /\ UNCHANGED <<db, now, sweep, expiredPublished, responseHistory>>

\* What save() sends after status = <new> on the loaded copy.
SaveStatus(stored, snap, st) ==
    IF snap.status # st THEN [stored EXCEPT !.status = st] ELSE stored

\* routes/requests.js:410-426  request.status = status; save; 200.
PutStatusWrite(c) ==
    /\ calls[c].pc = "write" /\ calls[c].kind = "put_status"
    /\ LET r == calls[c].req
       IN  db' = [db EXCEPT ![r] = SaveStatus(db[r], calls[c].snap, calls[c].arg)]
    /\ calls' = [calls EXCEPT ![c] = Finish(calls[c], "ok", TRUE, FALSE)]
    /\ emitted' = {}
    /\ UNCHANGED <<now, sweep, expiredPublished, responseHistory>>

\* socket service:275-278  findById of donor_response.
DonorResponseRead(c) ==
    /\ calls[c].pc = "read" /\ calls[c].kind = "donor_response"
    /\ LET doc == db[calls[c].req]
       IN  IF doc.status = "absent"
           THEN calls' = [calls EXCEPT ![c] = Finish(calls[c], "error", FALSE, FALSE)]
           ELSE calls' = [calls EXCEPT ![c] =
                             Loaded(c, doc)]
    /\ emitted' = {}
    /\ UNCHANGED <<db, now, sweep, expiredPublished, responseHistory>>

\* matchedDonors.find(match => match.donorId === donorId): its index, or 0.
RECURSIVE FindMatch(_, _, _)
FindMatch(matched, d, k) ==
    IF k > Len(matched) THEN 0
    ELSE IF matched[k].donorId = d THEN k
    ELSE FindMatch(matched, d, k + 1)

\* The array assigned anew with the one entry instead of pushed onto.
PushHistoryAssigned(hist, r, response) ==
    <<[requestId |-> r, responded |-> response = "accepted"]>>

\* socket service:299-308  donor.responseHistory.push({requestId, responded:
\* response === 'accepted', responseTime: 5}) and donor.save(), an atomic
\* $push onto the stored array.
PushHistory(hist, r, response) ==
    Append(hist, [requestId |-> r, responded |-> response = "accepted"])

\* socket service:280-333  update of the existing entry (a positional $set,
\* refused when the stored version key is no longer the loaded one) or push
\* of a new one; then the push onto the donor's responseHistory, the
\* donor_responded event to the hospital of the loaded copy, and the
\* acknowledgement.  A refused save throws into the catch of the handler.
DonorResponseWrite(c) ==
    /\ calls[c].pc = "write" /\ calls[c].kind = "donor_response"
    /\ LET r == calls[c].req
           d == calls[c].actor
           snap == calls[c].snap
           k == FindMatch(snap.matchedDonors, d, 1)
           entry == [donorId |-> d, response |-> calls[c].arg]
       IN  IF k # 0 /\ db[r].v # snap.v
           THEN /\ calls' = [calls EXCEPT ![c] = Finish(calls[c], "error", FALSE, FALSE)]
                /\ emitted' = {}
                /\ UNCHANGED <<db, responseHistory>>
           ELSE /\ db' = [db EXCEPT ![r] =
                            IF k # 0
                            THEN [db[r] EXCEPT !.matchedDonors[k].response =
                                                    calls[c].arg]
                            ELSE [db[r] EXCEPT
                                    !.matchedDonors =
                                        Append(db[r].matchedDonors, entry),
                                    !.v = db[r].v + 1]]
                /\ responseHistory' =
                     [responseHistory EXCEPT ![d] =
                        PushHistory(responseHistory[d], r, calls[c].arg)]
                /\ calls' = [calls EXCEPT ![c] = Finish(calls[c], "ok", TRUE, FALSE)]
                /\ emitted' =
                     IF snap.hospitalId # Null
                     THEN {Event("donor_responded",
                                 HospitalRoom(snap.hospitalId), r, c)}
                     ELSE {}
    /\ UNCHANGED <<now, sweep, expiredPublished>>

\* socket service:406-409  the query of the sweep: expiresAt < now and status
\* pending or accepted.
SweepMatches(doc, t) ==
    /\ doc.status \in {"pending", "accepted"}
    /\ doc.expiresAt < t

\* The documents the query returns, in collection order.
RECURSIVE ExpiredFrom(_)
ExpiredFrom(r) ==
    IF r > Len(db) THEN <<>>
    ELSE (IF SweepMatches(db[r], now)
          THEN <<[req |-> r, doc |-> db[r]]>> ELSE <<>>)
         \o ExpiredFrom(r + 1)

\* socket service:404-409  the timer fires and the query is answered.
SweepStart ==
    /\ sweep = <<>>
    /\ sweep' = ExpiredFrom(1)
    /\ emitted' = {}
    /\ UNCHANGED <<db, now, calls, expiredPublished, responseHistory>>

\* The rooms with the hospital left out when donors were matched.
ExpiredRoomsDonorsOnly(doc) ==
    IF doc.matchedDonors # <<>>
    THEN {DonorRoom(d) : d \in DonorIdsOf(doc.matchedDonors)}
    ELSE IF doc.hospitalId # Null THEN {HospitalRoom(doc.hospitalId)} ELSE {}

\* socket service:416-426  the rooms request_expired goes to.
ExpiredRooms(doc) ==
    (IF doc.hospitalId # Null THEN {HospitalRoom(doc.hospitalId)} ELSE {})
    \cup {DonorRoom(d) : d \in DonorIdsOf(doc.matchedDonors)}

\* socket service:411-427  one turn of the loop: status = 'cancelled', save,
\* publish request_expired.
SweepCancel ==
    /\ sweep # <<>>
    /\ LET r == Head(sweep).req
           doc == Head(sweep).doc
           ev == {Event("request_expired", room, r, 0) : room \in ExpiredRooms(doc)}
       IN  /\ db' = [db EXCEPT ![r] = SaveStatus(db[r], doc, "cancelled")]
           /\ emitted' = ev
           /\ expiredPublished' =
                IF ev # {} THEN expiredPublished \cup {r} ELSE expiredPublished
    /\ sweep' = Tail(sweep)
    /\ UNCHANGED <<now, calls, responseHistory>>

\* socket service:411-413, 432-434  request.save() of one turn rejects: the
\* exception leaves the for loop for the catch around the whole sweep, which
\* logs it; the callback is over and the timer stays armed.
SweepFail ==
    /\ sweep # <<>>
    /\ sweep' = <<>>
    /\ emitted' = {}
    /\ UNCHANGED <<db, now, calls, expiredPublished, responseHistory>>

(***************************************************************************)
(* Scoring Engine (AIMatcher.calculateMatchScore).  A donor is a record     *)
(* [id, bloodType, distance, available, lastDonation, totalDonations,      *)
(* responseHistory]: distance is what calculateDistance gives against the  *)
(* request's point, in metres; lastDonation is <<>> for null and <<day>>   *)
(* for a date; an entry of responseHistory is [responded, responseTime]    *)
(* with responseTime 0 when it is not set.  Numbers are exact: a component *)
(* score is counted in units of 1/ScoreUnit of a point, the weighted sum   *)
(* in tenths of that and the final score in hundredths of that.            *)
(***************************************************************************)
BloodTypes == {"A+", "A-", "B+", "B-", "O+", "O-", "AB+", "AB-"}

\* Every mean of up to ten integers times 70 is a whole number of units.
ScoreUnit == 8 * 9 * 5 * 7

\* One point and a hundred points of a final score.
Point == 100 * ScoreUnit
Hundred == 100 * Point

\* aiMatcher.js:7-12  matchingWeights, in tenths.
matchingWeights ==
    [distance |-> 4, bloodType |-> 3, availability |-> 2, responseHistory |-> 1]

\* No urgency multiplier.
urgencyMultipliersFlat(urgency) == 10

\* aiMatcher.js:14-18, 112  urgencyMultipliers[urgency] || 1.0, in tenths.
urgencyMultipliers(urgency) ==
    IF urgency = "critical" THEN 13 ELSE IF urgency = "urgent" THEN 11 ELSE 10

\* aiMatcher.js:21-30, 141  bloodCompatibility[donorBloodType] || []
bloodCompatibility(donorBloodType) ==
    CASE donorBloodType = "O+" -> {"O+", "A+", "B+", "AB+"}
      [] donorBloodType = "O-" -> BloodTypes
      [] donorBloodType = "A+" -> {"A+", "AB+"}
      [] donorBloodType = "A-" -> {"A+", "A-", "AB+", "AB-"}
      [] donorBloodType = "B+" -> {"B+", "AB+"}
      [] donorBloodType = "B-" -> {"B+", "B-", "AB+", "AB-"}
      [] donorBloodType = "AB+" -> {"AB+"}
      [] donorBloodType = "AB-" -> {"AB+", "AB-"}
      [] OTHER -> {}

\* aiMatcher.js:121-131  distance in metres against the km thresholds.
calculateDistanceScore(distance) ==
    IF distance <= 5 * 1000 THEN 100
    ELSE IF distance <= 10 * 1000 THEN 90
    ELSE IF distance <= 20 * 1000 THEN 70
    ELSE IF distance <= 30 * 1000 THEN 50
    ELSE IF distance <= 40 * 1000 THEN 30
    ELSE 10

\* Every compatible donor type rated alike.
calculateBloodTypeScoreFlat(donorBloodType, requestBloodType) ==
    IF donorBloodType = requestBloodType THEN 100
    ELSE IF requestBloodType \in bloodCompatibility(donorBloodType) THEN 85
    ELSE 0

\* aiMatcher.js:136-153
calculateBloodTypeScore(donorBloodType, requestBloodType) ==
    IF donorBloodType = requestBloodType THEN 100
    ELSE IF requestBloodType \in bloodCompatibility(donorBloodType)
         THEN IF donorBloodType = "O-" THEN 95
              ELSE IF donorBloodType = "O+" THEN 90
              ELSE 85
    ELSE 0

Min(a, b) == IF a <= b THEN a ELSE b
Max(a, b) == IF a >= b THEN a ELSE b

\* aiMatcher.js:158-183  t is new Date(), in days.
calculateAvailabilityScore(donor, t) ==
    LET daysSinceLastDonation == t - donor.lastDonation[1]
        recency ==
            IF donor.lastDonation = <<>> THEN 30
            ELSE IF daysSinceLastDonation >= 90 THEN 25
            ELSE IF daysSinceLastDonation >= 60 THEN 20
            ELSE IF daysSinceLastDonation >= 56 THEN 15
            ELSE IF daysSinceLastDonation >= 30 THEN 10
            ELSE 0
        reliability ==
            IF donor.totalDonations >= 10 THEN 15
            ELSE IF donor.totalDonations >= 5 THEN 10
            ELSE IF donor.totalDonations >= 1 THEN 5
            ELSE 0
    IN  Min(100, 50 + recency + reliability)

\* The whole array instead of its last n entries.
LastNWhole(s, n) == s

\* Array.prototype.slice(-n)
LastN(s, n) == IF Len(s) <= n THEN s ELSE SubSeq(s, Len(s) - n + 1, Len(s))

RECURSIVE SumTimes(_, _)
\* reduce((sum, r) => sum + (r.responseTime || 30), 0) from entry k on
SumTimes(recent, k) ==
    IF k > Len(recent) THEN 0
    ELSE (IF recent[k].responseTime = 0 THEN 30 ELSE recent[k].responseTime)
         + SumTimes(recent, k + 1)

\* aiMatcher.js:188-214  in units of 1/ScoreUnit.
calculateResponseScore(donor) ==
    IF donor.responseHistory = <<>> THEN 50 * ScoreUnit
    ELSE LET recentResponses == LastN(donor.responseHistory, 10)
             totalResponses == Len(recentResponses)
             positiveResponses ==
                Cardinality({k \in 1..totalResponses : recentResponses[k].responded})
             timeSum == SumTimes(recentResponses, 1)
             bonus ==
                IF timeSum <= 5 * totalResponses THEN 30
                ELSE IF timeSum <= 10 * totalResponses THEN 25
                ELSE IF timeSum <= 15 * totalResponses THEN 20
                ELSE IF timeSum <= 20 * totalResponses THEN 15
                ELSE IF timeSum <= 30 * totalResponses THEN 10
                ELSE 0
         IN  Min(100 * ScoreUnit,
                 (positiveResponses * 70 * ScoreUnit) \div totalResponses
                    + bonus * ScoreUnit)

\* The final score handed back as it is.
Unclamped(finalScore) == finalScore

\* aiMatcher.js:115  Math.min(100, Math.max(0, finalScore))
Clamp(finalScore) == Min(Hundred, Max(0, finalScore))

\* aiMatcher.js:86-116  the result in hundredths of 1/ScoreUnit of a point, so
\* that 100 points are Hundred.
calculateMatchScore(donor, bloodRequest, t) ==
    LET totalScore ==
            calculateDistanceScore(donor.distance) * ScoreUnit
                * matchingWeights.distance
            + calculateBloodTypeScore(donor.bloodType, bloodRequest.bloodType)
                * ScoreUnit * matchingWeights.bloodType
            + calculateAvailabilityScore(donor, t) * ScoreUnit
                * matchingWeights.availability
            + calculateResponseScore(donor) * matchingWeights.responseHistory
        finalScore == totalScore * urgencyMultipliers(bloodRequest.urgency)
    IN  Clamp(finalScore)

(***************************************************************************)
(* Connection registry and rooms (socket service).  A socket id is used    *)
(* for one connection.  Only connections that passed the authentication    *)
(* middleware (socket service:13-47: an existing donor, or an existing and *)
(* verified hospital) reach the handlers.  Coordinates are [lng, lat]      *)
(* pairs counted in twentieths of a degree, so that a grid cell of 0.1     *)
(* degree is CellSize units wide.                                          *)
(***************************************************************************)
MaxUpdates == 2     \* update_location events in one run

SocketIds == {"s1", "s2"}
UpdateIds == 1..MaxUpdates
Points == {<<0, 0>>, <<1, 1>>, <<2, 0>>, <<-1, 0>>}
CellSize == 2       \* socket service:397  0.1 degree

UserTypeOf(a) == IF a \in Hospitals THEN "hospital" ELSE "donor"

\* socket service:395-400  getLocationCluster: floor of lat and of lng over
\* the cell width, latitude first.
getLocationCluster(coordinates) ==
    <<coordinates[2] \div CellSize, coordinates[1] \div CellSize>>

\* `hospital_cluster_${cluster}` / `donor_cluster_${cluster}`
ClusterRoom(userType, cluster) == [type |-> userType, cluster |-> cluster]

\* `hospital_${id}` / `donor_${id}`
IdentityRoom(userType, a) ==
    IF userType = "hospital" THEN HospitalRoom(a) ELSE DonorRoom(a)

\* A socket id no connection has used yet.  lastPoint is the point of the last
\* update_location received on the socket, or the stored point it connected
\* with.
NoSocket == [state |-> "new", userType |-> Null, id |-> Null, rooms |-> {},
             lastPoint |-> <<0, 0>>, seq |-> 0]

IdleUpdate == [pc |-> "idle", sock |-> Null, point |-> <<0, 0>>]

\* Map.prototype.set / Map.prototype.delete on a registry map; a key that is
\* not in the map is held as Null.
MapPut(map, key, value) == [map EXCEPT ![key] = value]

\* The whole map emptied instead of one key removed.
MapClear(map, key) == [k \in DOMAIN map |-> Null]

MapDelete(map, key) == [map EXCEPT ![key] = Null]

\* socket.join of the cluster room of a point and of the identity room.
HomeRooms(userType, a, coordinates) ==
    {ClusterRoom(userType, getLocationCluster(coordinates)),
     IdentityRoom(userType, a)}

\* socket service:49-60, 97-130  the connection event of actor a on socket s:
\* handleHospitalConnection / handleDonorConnection register the socket under
\* the identity and join the cluster room of the point loaded by the
\* middleware and the identity room.  (sendActiveRequestsToHospital only
\* answers on the socket.)  seq numbers the connections in the order they
\* were made.
Connect(s, a) ==
    /\ sockets[s].state = "new"
    /\ sockets' = [sockets EXCEPT ![s] =
                     [state |-> "open", userType |-> UserTypeOf(a), id |-> a,
                      rooms |-> HomeRooms(UserTypeOf(a), a, locations[a]),
                      lastPoint |-> locations[a],
                      seq |-> 1 + Cardinality({t \in SocketIds :
                                                sockets[t].state # "new"})]]
    /\ IF a \in Hospitals
       THEN /\ connectedHospitals' = MapPut(connectedHospitals, a, s)
            /\ UNCHANGED connectedDonors
       ELSE /\ connectedDonors' = MapPut(connectedDonors, a, s)
            /\ UNCHANGED connectedHospitals
    /\ UNCHANGED <<locations, locUpdates>>

\* socket service:63-65, 132-140  the disconnect event of socket s:
\* handleDisconnection deletes the entry of the socket's identity.  The
\* socket has left its rooms when the event is delivered.
Disconnect(s) ==
    /\ sockets[s].state = "open"
    /\ sockets' = [sockets EXCEPT ![s].state = "closed", ![s].rooms = {}]
    /\ IF sockets[s].userType = "hospital"
       THEN /\ connectedHospitals' = MapDelete(connectedHospitals, sockets[s].id)
            /\ UNCHANGED connectedDonors
       ELSE /\ connectedDonors' = MapDelete(connectedDonors, sockets[s].id)
            /\ UNCHANGED connectedHospitals
    /\ UNCHANGED <<locations, locUpdates>>

\* socket service:83-85, 336-343  update_location(point) is received on socket
\* s and the handler waits for findByIdAndUpdate.
LocationUpdateStart(u, s, p) ==
    /\ locUpdates[u].pc = "idle"
    /\ \A b \in UpdateIds : b < u => locUpdates[b].pc # "idle"
    /\ sockets[s].state = "open"
    /\ locUpdates' = [locUpdates EXCEPT ![u] =
                        [pc |-> "pending", sock |-> s, point |-> p]]
    /\ sockets' = [sockets EXCEPT ![s].lastPoint = p]
    /\ UNCHANGED <<connectedHospitals, connectedDonors, locations>>

\* socket service:341-359  the stored point is written and the handler goes
\* on: leaveAll, then join of the new cluster room and of the identity room.
\* Handlers waiting on the same socket go on in the order the store answers.
LocationUpdateDone(u) ==
    /\ locUpdates[u].pc = "pending"
    /\ LET s == locUpdates[u].sock
           p == locUpdates[u].point
       IN  /\ locations' = [locations EXCEPT ![sockets[s].id] = p]
           /\ sockets' = [sockets EXCEPT ![s].rooms =
                             HomeRooms(sockets[s].userType, sockets[s].id, p)]
    /\ locUpdates' = [locUpdates EXCEPT ![u].pc = "done"]
    /\ UNCHANGED <<connectedHospitals, connectedDonors>>

\* The stored points before any update: donors at one point, hospitals at
\* another of the same cell.
InitConn ==
    /\ sockets = [s \in SocketIds |-> NoSocket]
    /\ connectedHospitals = [h \in Hospitals |-> Null]
    /\ connectedDonors = [d \in Donors |-> Null]
    /\ locations = [a \in Donors \cup Hospitals |->
                      IF a \in Donors THEN <<0, 0>> ELSE <<1, 1>>]
    /\ locUpdates = [u \in UpdateIds |-> IdleUpdate]

(***************************************************************************)
(* Candidate Retrieval (AIMatcher.findMatchingDonors), the donor query of  *)
(* the socket service (Donor.findNearbyEligible), the two ways a request   *)
(* is created (emergency_request, POST /create) and update_availability.   *)
(***************************************************************************)
MaxAvail == 2       \* update_availability events in one run
MaxPool == 11       \* donors in the collection of SpecRank
MaxScoreCalls == 2  \* calls of calculateMatchScore in SpecScore

AvailIds == 1..MaxAvail
RequestPoint == <<0, 0>>     \* where the request of a run is

\* aiMatcher.js:41  search radius in km
searchRadius(urgency) ==
    IF urgency = "critical" THEN 50 ELSE IF urgency = "urgent" THEN 40 ELSE 30

\* aiMatcher.js:74  cap on the returned donors
maxDonors(urgency) ==
    IF urgency = "critical" THEN 10 ELSE IF urgency = "urgent" THEN 8 ELSE 6

\* aiMatcher.js:55-58, Donor.js:300-303  lastDonation null or at most
\* now - 56 days
RestedEnough(donor, t) ==
    \/ donor.lastDonation = <<>>
    \/ donor.lastDonation[1] <= t - 56

\* The filter with the availability flag left out.
MatchesQueryIgnoringAvailable(donor, radiusKm, t) ==
    /\ donor.distance <= radiusKm * 1000
    /\ RestedEnough(donor, t)

\* aiMatcher.js:44-59  the filter of Donor.find: $near with $maxDistance,
\* available: true, and the 56-day rule.
MatchesQuery(donor, radiusKm, t) ==
    /\ donor.distance <= radiusKm * 1000
    /\ donor.available
    /\ RestedEnough(donor, t)

\* The documents Donor.find returns, nearest first.
GeoQuery(coll, radiusKm, t) ==
    LET Test(donor) == MatchesQuery(donor, radiusKm, t)
    IN  SelectSeq(coll, Test)

\* The comparator with its operands swapped (a.matchScore - b.matchScore).
ScoredAfterAscending(a, b) == a.matchScore - b.matchScore > 0

\* aiMatcher.js:71  the comparator (a, b) => b.matchScore - a.matchScore:
\* TRUE when a must come after b.
ScoredAfter(a, b) == b.matchScore - a.matchScore > 0

\* Array.prototype.sort with that comparator (stable).
RECURSIVE InsertByScore(_, _)
InsertByScore(x, s) ==
    IF s = <<>> THEN <<x>>
    ELSE IF ScoredAfter(Head(s), x) THEN <<x>> \o s
    ELSE <<Head(s)>> \o InsertByScore(x, Tail(s))

RECURSIVE SortByScore(_)
SortByScore(s) ==
    IF s = <<>> THEN <<>>
    ELSE InsertByScore(s[Len(s)], SortByScore(SubSeq(s, 1, Len(s) - 1)))

\* Array.prototype.slice(0, n)
FirstN(s, n) == IF Len(s) <= n THEN s ELSE SubSeq(s, 1, n)

\* aiMatcher.js:36-81  findMatchingDonors: the query, the score of every
\* returned donor, the sort, the cut; a failing query ends in the catch,
\* which returns [].
findMatchingDonors(bloodRequest, coll, t, queryFails) ==
    IF queryFails THEN <<>>
    ELSE LET nearbyDonors == GeoQuery(coll, searchRadius(bloodRequest.urgency), t)
             scoredDonors ==
                [k \in 1..Len(nearbyDonors) |->
                    [donorId |-> nearbyDonors[k].id,
                     matchScore |-> calculateMatchScore(nearbyDonors[k],
                                                        bloodRequest, t)]]
         IN  FirstN(SortByScore(scoredDonors), maxDonors(bloodRequest.urgency))

\* Donor.js:287-305  findNearbyEligible(lat, lng, bloodType, radiusKm)
findNearbyEligible(coll, bloodType, radiusKm, t) ==
    LET Test(donor) == /\ MatchesQuery(donor, radiusKm, t)
                       /\ donor.bloodType = bloodType
    IN  SelectSeq(coll, Test)

NoRequest == [bloodType |-> Null, urgency |-> Null]
NoReply == [event |-> "none", matchedDonors |-> 0]
IdleCreation == [pc |-> "idle", via |-> Null, bloodRequest |-> NoRequest,
                 queryFailed |-> FALSE, found |-> <<>>, reply |-> NoReply]
IdleAvail == [pc |-> "idle", donor |-> Null, available |-> FALSE]

\* routes/requests.js:122-134  the 201 answer of POST /create
CreatedReply(found) == [event |-> "201", matchedDonors |-> Len(found)]

\* socket service:144-159 and routes/requests.js:67-96  the request is built
\* with urgency || 'normal' and saved; POST /create first looks for an active
\* request of the same phone.  The model holds one request.
CreateStart(via, bloodType, urgency) ==
    /\ creation.pc = "idle"
    /\ db[1].status = "absent"
    /\ db' = [db EXCEPT ![1] = NewDoc(<<>>, now)]
    /\ creation' = [IdleCreation EXCEPT
                      !.pc = "saved", !.via = via,
                      !.bloodRequest =
                         [bloodType |-> bloodType,
                          urgency |-> IF urgency = Null THEN "normal" ELSE urgency]]
    /\ emitted' = {}
    /\ UNCHANGED <<now, donorDb, availUpdates, scoreInput, scores>>

\* socket service:161-215  new_request to the hospital cluster room of the
\* request's point, the donor query, blood_needed to every donor it returns
\* and request_created to the submitter; a failing donor query ends in the
\* catch, which answers with error.
EmergencyNotify(queryFails) ==
    /\ creation.pc = "saved" /\ creation.via = "socket"
    /\ LET matchingDonors ==
              findNearbyEligible(donorDb, creation.bloodRequest.bloodType, 30, now)
           newRequest ==
              Event("new_request",
                    ClusterRoom("hospital", getLocationCluster(RequestPoint)), 1, 0)
       IN  IF queryFails
           THEN /\ emitted' = {newRequest}
                /\ creation' = [creation EXCEPT
                                  !.pc = "done", !.queryFailed = TRUE,
                                  !.reply = [event |-> "error", matchedDonors |-> 0]]
           ELSE /\ emitted' = {newRequest} \cup
                      {Event("blood_needed", DonorRoom(matchingDonors[k].id), 1, 0) :
                          k \in 1..Len(matchingDonors)}
                /\ creation' = [creation EXCEPT
                                  !.pc = "done",
                                  !.reply = [event |-> "request_created",
                                             matchedDonors |-> 0]]
    /\ UNCHANGED <<db, now, donorDb, availUpdates, scoreInput, scores>>

\* routes/requests.js:98-134  findMatchingDonors, matchedDonors set from its
\* result and saved, and the 201 answer.
CreateMatch(queryFails) ==
    /\ creation.pc = "saved" /\ creation.via = "rest"
    /\ LET matchedDonors ==
              findMatchingDonors(creation.bloodRequest, donorDb, now, queryFails)
       IN  /\ db' = [db EXCEPT ![1].matchedDonors =
                        [k \in 1..Len(matchedDonors) |->
                            [donorId |-> matchedDonors[k].donorId,
                             response |-> "pending"]]]
           /\ creation' = [creation EXCEPT
                             !.pc = "done", !.queryFailed = queryFails,
                             !.found = matchedDonors,
                             !.reply = CreatedReply(matchedDonors)]
    /\ emitted' = {}
    /\ UNCHANGED <<now, donorDb, availUpdates, scoreInput, scores>>

\* The position of donor d in the collection.
IndexOf(coll, d) == CHOOSE k \in 1..Len(coll) : coll[k].id = d

\* socket service:366-371 (update_availability on the donor's connection) and
\* routes/requests.js:811-820 (PUT /:id/availability): findByIdAndUpdate
\* writes the flag.
AvailabilityWrite(u, d, available) ==
    /\ availUpdates[u].pc = "idle"
    /\ \A b \in AvailIds : b < u => availUpdates[b].pc # "idle"
    /\ \E k \in 1..Len(donorDb) : donorDb[k].id = d
    /\ donorDb' = [donorDb EXCEPT ![IndexOf(donorDb, d)].available = available]
    /\ availUpdates' = [availUpdates EXCEPT ![u] =
                          [pc |-> "written", donor |-> d, available |-> available]]
    /\ emitted' = {}
    /\ UNCHANGED <<db, now, creation, scoreInput, scores>>

\* socket service:373  availability_updated is sent back on the connection.
AvailabilityAck(u) ==
    /\ availUpdates[u].pc = "written"
    /\ availUpdates' = [availUpdates EXCEPT ![u].pc = "done"]
    /\ emitted' = {Event("availability_updated",
                         DonorRoom(availUpdates[u].donor), 0, 0)}
    /\ UNCHANGED <<db, now, donorDb, creation, scoreInput, scores>>

\* A call of calculateMatchScore on the drawn donor and request; the entry
\* keeps the locals compatibilityScore (aiMatcher.js:100, in points) and
\* responseScore (aiMatcher.js:108, in units of 1/ScoreUnit) next to the
\* value returned.
ScoreCall ==
    /\ Len(scores) < MaxScoreCalls
    /\ scores' = Append(scores,
                        [at |-> now,
                         compatibilityScore |->
                            calculateBloodTypeScore(scoreInput.donor.bloodType,
                                                    scoreInput.bloodRequest.bloodType),
                         responseScore |-> calculateResponseScore(scoreInput.donor),
                         value |-> calculateMatchScore(scoreInput.donor,
                                                       scoreInput.bloodRequest,
                                                       now)])
    /\ UNCHANGED <<db, now, emitted, donorDb, creation, availUpdates, scoreInput>>

\* The clock moves on between two calls.
TickBetweenCalls ==
    /\ Len(scores) = 1
    /\ Tick
    /\ UNCHANGED <<donorDb, creation, availUpdates, scoreInput, scores>>

\* ---- donors and requests the runs draw from ----
NoHistory == <<>>
Donor(id, bloodType, distance, lastDonation, totalDonations, history) ==
    [id |-> id, bloodType |-> bloodType, distance |-> distance,
     available |-> TRUE, lastDonation |-> lastDonation,
     totalDonations |-> totalDonations, responseHistory |-> history]

NoDonor == Donor(Null, Null, 0, <<>>, 0, NoHistory)
NoInput == [donor |-> NoDonor, bloodRequest |-> NoRequest]

\* Donors of SpecRetr: universal or A+ donors, inside the radius of every
\* urgency, of critical only, or of none; never donated, or donated 56 or 55
\* days before the start.
RetrDonors(id) ==
    {Donor(id, bt, dist, last, 0, NoHistory) :
        bt \in {"O-", "A+"}, dist \in {30000, 40001, 50001},
        last \in {<<>>, <<-56>>, <<-55>>}}

Sorted(coll) == \A k \in 1..(Len(coll) - 1) : coll[k].distance <= coll[k + 1].distance

\* Donors of SpecRank: all 3 km away and eligible, of two blood types.
RankDonor(id, bloodType) == Donor(id, bloodType, 3000, <<>>, 0, NoHistory)

RankPools ==
    {[k \in 1..Len(types) |-> RankDonor(k, types[k])] :
        types \in SeqUpTo({"A+", "O-"}, MaxPool)}

\* Inputs of SpecScore.
Repeat(entry, n) == [k \in 1..n |-> entry]

ScoreHistories ==
    {NoHistory,
     <<[responded |-> TRUE, responseTime |-> 5]>>,
     <<[responded |-> FALSE, responseTime |-> 0], [responded |-> TRUE, responseTime |-> 45]>>,
     Repeat([responded |-> FALSE, responseTime |-> 12], 3)
        \o Repeat([responded |-> TRUE, responseTime |-> 5], 10)}

ScoreDonors ==
    {Donor("D1", bt, dist, last, total, history) :
        bt \in BloodTypes \cup {"X"},
        dist \in {0, 5000, 5001, 10001, 20001, 30001, 40001},
        last \in {<<>>, <<-10>>, <<-29>>, <<-55>>, <<-59>>, <<-89>>},
        total \in {0, 1, 5, 10},
        history \in ScoreHistories}

ScoreRequests ==
    [bloodType : BloodTypes \cup {"X"}, urgency : Urgencies \cup {"unknown"}]

\* No request is being created and no score is asked for.
InitRetrIdle ==
    /\ donorDb = <<>>
    /\ creation = IdleCreation
    /\ availUpdates = [u \in AvailIds |-> IdleAvail]
    /\ scoreInput = NoInput
    /\ scores = <<>>

InitDispatch ==
    /\ db = [r \in RequestIds |-> NoDoc]
    /\ now = 0
    /\ calls = [c \in CallIds |-> IdleCall]
    /\ sweep = <<>>
    /\ emitted = {}
    /\ expiredPublished = {}
    /\ responseHistory = [d \in Donors |-> <<>>]

\* No optimizer call is under way.
InitOptIdle ==
    /\ requests = <<>> /\ retrieval = <<>> /\ allMatches = <<>>
    /\ optPc = "done" /\ processed = <<>> /\ results = <<>>
    /\ inFlight = NoFlights

Init ==
    /\ InitDispatch
    /\ InitConn
    /\ InitRetrIdle
    /\ InitOptIdle

Next ==
    \/ (\E r \in RequestIds, m \in MatchedLists : CreateRequest(r, m))
          /\ UNCHANGED outsideDisp
    \/ Tick /\ UNCHANGED outsideDisp
    \/ (\E c \in CallIds : StartAccept(c)) /\ UNCHANGED outsideDisp
    \/ (\E c \in CallIds : StartAcceptOnDonorSocket(c)) /\ UNCHANGED outsideDisp
    \/ (\E c \in CallIds : StartRestAccept(c)) /\ UNCHANGED outsideDisp
    \/ (\E c \in CallIds : StartPutStatus(c)) /\ UNCHANGED outsideDisp
    \/ (\E c \in CallIds : StartDonorResponse(c)) /\ UNCHANGED outsideDisp
    \/ (\E c \in CallIds : AcceptRead(c)) /\ UNCHANGED outsideDisp
    \/ (\E c \in CallIds : AcceptWrite(c)) /\ UNCHANGED outsideDisp
    \/ (\E c \in CallIds : RestAcceptRead(c)) /\ UNCHANGED outsideDisp
    \/ (\E c \in CallIds : RestAcceptWrite(c)) /\ UNCHANGED outsideDisp
    \/ (\E c \in CallIds : PutStatusRead(c)) /\ UNCHANGED outsideDisp
    \/ (\E c \in CallIds : PutStatusWrite(c)) /\ UNCHANGED outsideDisp
    \/ (\E c \in CallIds : DonorResponseRead(c)) /\ UNCHANGED outsideDisp
    \/ (\E c \in CallIds : DonorResponseWrite(c)) /\ UNCHANGED outsideDisp
    \/ SweepStart /\ UNCHANGED outsideDisp
    \/ SweepCancel /\ UNCHANGED outsideDisp

Spec == Init /\ [][Next]_vars

\* One optimizer call on a drawn batch; the request store stays as started.
InitBatch ==
    /\ InitOpt
    /\ InitDispatch
    /\ InitConn
    /\ InitRetrIdle

SpecOpt == InitBatch /\ [][NextOpt]_vars

\* The sweeper alone on a store of up to MaxSwept requests, with saves that
\* may fail.
SweptIds == 1..MaxSwept

InitSweep ==
    /\ db = [r \in SweptIds |-> NoDoc]
    /\ now = 0
    /\ calls = [c \in CallIds |-> IdleCall]
    /\ sweep = <<>>
    /\ emitted = {}
    /\ expiredPublished = {}
    /\ responseHistory = [d \in Donors |-> <<>>]
    /\ InitConn
    /\ InitRetrIdle
    /\ InitOptIdle

NextSweep ==
    \/ (\E r \in SweptIds, m \in MatchedLists : CreateRequest(r, m))
          /\ UNCHANGED outsideDisp
    \/ Tick /\ UNCHANGED outsideDisp
    \/ SweepStart /\ UNCHANGED outsideDisp
    \/ SweepCancel /\ UNCHANGED outsideDisp
    \/ SweepFail /\ UNCHANGED outsideDisp

SpecSweep == InitSweep /\ [][NextSweep]_vars

\* Two optimizer calls made one after the other without waiting.
InitFlights ==
    /\ InitDispatch
    /\ InitConn
    /\ InitRetrIdle
    /\ requests = <<>> /\ retrieval = <<>> /\ allMatches = <<>>
    /\ optPc = "done" /\ processed = <<>> /\ results = <<>>
    /\ \E a \in FlightStarts(1), c \in FlightStarts(2) : inFlight = <<a, c>>

SpecFlights == InitFlights /\ [][NextFlights]_vars

\* The connection registry alone: connections open and close and send
\* update_location; the request store stays as started.
NextConn ==
    \/ (\E s \in SocketIds, a \in Donors \cup Hospitals : Connect(s, a))
          /\ UNCHANGED outsideConn
    \/ (\E s \in SocketIds : Disconnect(s)) /\ UNCHANGED outsideConn
    \/ (\E u \in UpdateIds, s \in SocketIds, p \in Points :
            LocationUpdateStart(u, s, p)) /\ UNCHANGED outsideConn
    \/ (\E u \in UpdateIds : LocationUpdateDone(u)) /\ UNCHANGED outsideConn

SpecConn == Init /\ [][NextConn]_vars

\* Creation of one request against two donors whose availability changes.
InitRetr ==
    /\ InitDispatch
    /\ InitConn
    /\ InitOptIdle
    /\ donorDb \in {coll \in {<<a, b>> : a \in RetrDonors("D1"), b \in RetrDonors("D2")} :
                      Sorted(coll)}
    /\ creation = IdleCreation
    /\ availUpdates = [u \in AvailIds |-> IdleAvail]
    /\ scoreInput = NoInput
    /\ scores = <<>>

NextRetr ==
    \/ (\E via \in {"socket", "rest"}, bt \in {"A+", "B+"}, urgency \in Urgencies \cup {Null} :
            CreateStart(via, bt, urgency)) /\ UNCHANGED outsideRetr
    \/ (\E queryFails \in BOOLEAN : EmergencyNotify(queryFails)) /\ UNCHANGED outsideRetr
    \/ (\E queryFails \in BOOLEAN : CreateMatch(queryFails)) /\ UNCHANGED outsideRetr
    \/ (\E u \in AvailIds, d \in Donors, available \in BOOLEAN :
            AvailabilityWrite(u, d, available)) /\ UNCHANGED outsideRetr
    \/ (\E u \in AvailIds : AvailabilityAck(u)) /\ UNCHANGED outsideRetr

SpecRetr == InitRetr /\ [][NextRetr]_vars

\* POST /create against a collection of up to MaxPool donors.
InitRank ==
    /\ InitDispatch
    /\ InitConn
    /\ InitOptIdle
    /\ donorDb \in RankPools
    /\ creation = IdleCreation
    /\ availUpdates = [u \in AvailIds |-> IdleAvail]
    /\ scoreInput = NoInput
    /\ scores = <<>>

NextRank ==
    \/ (\E bt \in {"A+", "B+"}, urgency \in Urgencies :
            CreateStart("rest", bt, urgency)) /\ UNCHANGED outsideRetr
    \/ (\E queryFails \in BOOLEAN : CreateMatch(queryFails)) /\ UNCHANGED outsideRetr

SpecRank == InitRank /\ [][NextRank]_vars

\* Calls of the Scoring Engine on one drawn donor and request.
InitScore ==
    /\ InitDispatch
    /\ InitConn
    /\ InitOptIdle
    /\ donorDb = <<>>
    /\ creation = IdleCreation
    /\ availUpdates = [u \in AvailIds |-> IdleAvail]
    /\ scoreInput \in [donor : ScoreDonors, bloodRequest : ScoreRequests]
    /\ scores = <<>>

NextScore ==
    \/ ScoreCall /\ UNCHANGED outsideRetr
    \/ TickBetweenCalls /\ UNCHANGED outsideRetr

SpecScore == InitScore /\ [][NextScore]_vars

\* The two donors of the end-to-end scenario, at the start of the day the
\* request is made: donor A ("D1") 3 km away, O-, never donated, no response
\* history; donor B ("D2") 2 km away, A+, last donation 100 days before,
\* with any number of donations and any response history.
ScenarioDonorA == Donor("D1", "O-", 3000, <<>>, 0, NoHistory)

ScenarioDonorsB ==
    {Donor("D2", "A+", 2000, <<-100>>, total, history) :
        total \in {0, 1, 5, 10}, history \in ScoreHistories}

\* POST /create for an O+ request against the two donors, whose availability
\* flags change.
InitScenario ==
    /\ InitDispatch
    /\ InitConn
    /\ InitOptIdle
    /\ donorDb \in {<<b, ScenarioDonorA>> : b \in ScenarioDonorsB}
    /\ creation = IdleCreation
    /\ availUpdates = [u \in AvailIds |-> IdleAvail]
    /\ scoreInput = NoInput
    /\ scores = <<>>

NextScenario ==
    \/ (\E urgency \in Urgencies : CreateStart("rest", "O+", urgency))
            /\ UNCHANGED outsideRetr
    \/ (\E queryFails \in BOOLEAN : CreateMatch(queryFails)) /\ UNCHANGED outsideRetr
    \/ (\E u \in AvailIds, d \in Donors, available \in BOOLEAN :
            AvailabilityWrite(u, d, available)) /\ UNCHANGED outsideRetr
    \/ (\E u \in AvailIds : AvailabilityAck(u)) /\ UNCHANGED outsideRetr

SpecScenario == InitScenario /\ [][NextScenario]_vars

(***************************************************************************)
(* Properties of the Assignment Optimizer (checked under SpecOpt).         *)
(***************************************************************************)
Pair(d, r) == [donorId |-> d, requestId |-> r]

\* Batch positions whose ranked list starts with donor d.
RanksFirst(i, d) == retrieval[i] # <<>> /\ retrieval[i][1] = d

UrgencyOf(id) == requests[id].urgency

\* C1: the output of optimizeDonorAssignment holds no donor id in more than
\* one (donorId, requestId) pair.
C1_NoDonorTwice ==
    optPc = "done" =>
        \A i, j \in 1..Len(results) :
            i # j => results[i].donorId # results[j].donorId

\* C1 witness: a finished batch in which two requests ranked the same donor
\* first and two donors were handed out.
C1_Witness ==
    /\ optPc = "done"
    /\ Len(results) >= 2
    /\ \E i, j \in 1..Len(requests), d \in Donors :
          i # j /\ RanksFirst(i, d) /\ RanksFirst(j, d)

\* The greedy loop visits the requests in non-increasing priority.
ProcessedByPriority ==
    /\ Range(processed) = {requests[i].id : i \in 1..Len(requests)}
    /\ \A p, q \in 1..Len(processed) :
          p < q => Priority(UrgencyOf(processed[p]))
                      >= Priority(UrgencyOf(processed[q]))

\* C10 as stated: whenever a critical and a normal request of the batch both
\* rank donor X first, the critical one is assigned X, and requests are
\* processed in descending urgency.
C10_CriticalGetsTopDonor ==
    optPc = "done" =>
        /\ \A i, j \in 1..Len(requests), d \in Donors :
              (/\ requests[i].urgency = "critical"
               /\ requests[j].urgency = "normal"
               /\ RanksFirst(i, d) /\ RanksFirst(j, d))
              => Pair(d, requests[i].id) \in Range(results)
        /\ ProcessedByPriority

\* C10 amended: when a critical and a normal request both rank donor X first,
\* X goes to that critical request unless a critical request earlier in the
\* batch has taken X; X never goes to the normal request; and requests are
\* processed in descending urgency.
C10_CriticalBeforeNormal ==
    optPc = "done" =>
        /\ \A i, j \in 1..Len(requests), d \in Donors :
              (/\ requests[i].urgency = "critical"
               /\ requests[j].urgency = "normal"
               /\ RanksFirst(i, d) /\ RanksFirst(j, d))
              => /\ \/ Pair(d, requests[i].id) \in Range(results)
                    \/ \E k \in 1..(i - 1) :
                          /\ requests[k].urgency = "critical"
                          /\ Pair(d, requests[k].id) \in Range(results)
                 /\ Pair(d, requests[j].id) \notin Range(results)
        /\ ProcessedByPriority

\* C10 witness: the normal request comes first in the batch, the critical one
\* after it, both rank the same donor first, and the critical one holds it.
C10_Witness ==
    /\ optPc = "done"
    /\ \E i, j \in 1..Len(requests), d \in Donors :
          /\ j < i
          /\ requests[i].urgency = "critical"
          /\ requests[j].urgency = "normal"
          /\ RanksFirst(i, d) /\ RanksFirst(j, d)
          /\ Pair(d, requests[i].id) \in Range(results)

\* The output of call b run alone on what retrieval returned for its batch.
AloneOutput(b) ==
    LET batch == inFlight[b].requests
        collected == [i \in 1..Len(batch) |->
                        [requestId |-> batch[i].id,
                         priority |-> Priority(batch[i].urgency),
                         matches |-> inFlight[b].retrieval[i]]]
    IN  Greedy(SortByPriority(collected), 1, EmptyGreedy).assignments

Stranded(r) ==
    /\ retrieval[r] # <<>>
    /\ \A k \in 1..Len(results) : results[k].requestId # requests[r].id

\* Some assignment gives every request of the batch a candidate of its own
\* list, no donor twice.
CompleteAssignmentExists ==
    \E f \in [1..Len(requests) -> Donors] :
        /\ \A i \in 1..Len(requests) : f[i] \in Range(retrieval[i])
        /\ \A i, j \in 1..Len(requests) : i # j => f[i] # f[j]

\* C23: in a batch of two requests where the one processed first ranks
\* donors d and e in that order and the other has d as its only candidate,
\* the first takes d and the second is left without a donor, although
\* giving e to the first and d to the second would serve both: the optimizer
\* does not go back on a claim.
C23_GreedyStrands ==
    optPc = "done" /\ Len(requests) = 2 =>
        \A i, j \in 1..2, d, e \in Donors :
            (/\ i # j /\ d # e
             /\ retrieval[i] = <<d, e>> /\ retrieval[j] = <<d>>
             /\ \/ Priority(UrgencyOf(i)) > Priority(UrgencyOf(j))
                \/ Priority(UrgencyOf(i)) = Priority(UrgencyOf(j)) /\ i < j)
            => /\ results = <<Pair(d, requests[i].id)>>
               /\ Stranded(j)
               /\ CompleteAssignmentExists

\* A finished batch with a stranded request and a complete assignment left
\* unused.
C23_Witness ==
    /\ optPc = "done"
    /\ \E r \in 1..Len(requests) : Stranded(r)
    /\ CompleteAssignmentExists

\* The donors held by the requests visited before position p of processed.
ClaimedBefore(p) ==
    {results[k].donorId : k \in {x \in 1..Len(results) :
        \E q \in 1..(p - 1) : results[x].requestId = processed[q]}}

\* C25: the optimizer visits every request once, in descending priority with
\* equal priorities in batch order; a request has at most one pair in the
\* output; it has the first donor of its ranked list that no request visited
\* earlier holds, and none only when every donor of its list is held by an
\* earlier one or the list is empty.
C25_FirstUnclaimedInPriorityOrder ==
    optPc = "done" =>
        /\ Len(processed) = Len(requests)
        /\ Range(processed) = {requests[i].id : i \in 1..Len(requests)}
        /\ \A p, q \in 1..Len(processed) :
              p < q =>
                  \/ Priority(UrgencyOf(processed[p])) > Priority(UrgencyOf(processed[q]))
                  \/ /\ Priority(UrgencyOf(processed[p])) = Priority(UrgencyOf(processed[q]))
                     /\ processed[p] < processed[q]
        /\ \A p \in 1..Len(processed) :
              LET r == processed[p]
                  mine == {k \in 1..Len(results) : results[k].requestId = r}
                  free == {j \in 1..Len(retrieval[r]) :
                              retrieval[r][j] \notin ClaimedBefore(p)}
              IN  /\ Cardinality(mine) <= 1
                  /\ free = {} => mine = {}
                  /\ free # {} =>
                        \E k \in mine :
                            \E j \in free :
                                /\ \A i \in free : j <= i
                                /\ results[k].donorId = retrieval[r][j]

\* Three requests, the last of the batch critical and the first two of equal
\* priority: the critical one was visited first and holds its top donor, the
\* first of the batch holds its second choice, the second holds none.
C25_Witness ==
    /\ optPc = "done"
    /\ Len(requests) = 3
    /\ processed = <<3, 1, 2>>
    /\ UrgencyOf(1) = UrgencyOf(2)
    /\ \E d, e \in Donors :
          /\ d # e
          /\ retrieval[3] = <<d>> /\ retrieval[1] = <<d, e>> /\ retrieval[2] = <<d, e>>
          /\ results = <<Pair(d, 3), Pair(e, 1)>>

(***************************************************************************)
(* Properties of the request state machine (checked under Spec).           *)
(***************************************************************************)
AcceptKinds == {"accept_request", "rest_accept"}
Done(c) == calls[c].pc = "done"

\* C2: a request that is completed or cancelled never changes status again.
C2_TerminalStatusIsFinal ==
    [][\A r \in RequestIds :
          db[r].status \in {"completed", "cancelled"}
              => db'[r].status = db[r].status]_vars

\* C3: an accept of a request that is not pending, or that has expired, is
\* answered with an error and writes nothing to the request.
C3_AcceptOfInactiveRejected ==
    \A c \in CallIds :
        (/\ Done(c)
         /\ calls[c].kind \in AcceptKinds
         /\ db[calls[c].req].status # "absent"
         /\ ~calls[c].readActive)
        => (calls[c].reply = "error" /\ ~calls[c].wrote)

\* C4: an accept sent by a hospital that is already in acceptedHospitals
\* changes nothing and is not answered with an error.
C4_RepeatedAcceptIsNoOp ==
    \A c \in CallIds :
        (/\ Done(c)
         /\ calls[c].kind \in AcceptKinds
         /\ calls[c].sentIncluded)
        => (calls[c].reply # "error" /\ ~calls[c].wrote)

\* C5: request_accepted is published only by the call that performed the
\* pending -> accepted transition.
C5_NotifyOnlyOnTransition ==
    \A e \in emitted :
        e.event = "request_accepted" => calls[e.by].transitioned

\* C6: two hospitals accept the same request, both calls received while it
\* was pending and not expired; once both calls are over acceptedHospitals
\* holds both hospitals and exactly one call performed pending -> accepted.
C6_ConcurrentAcceptsBothListed ==
    \A c1, c2 \in CallIds :
        (/\ c1 # c2
         /\ Done(c1) /\ Done(c2)
         /\ calls[c1].kind \in AcceptKinds /\ calls[c2].kind \in AcceptKinds
         /\ calls[c1].req = calls[c2].req
         /\ calls[c1].actor \in Hospitals /\ calls[c2].actor \in Hospitals
         /\ calls[c1].actor # calls[c2].actor
         /\ calls[c1].sentActive /\ calls[c2].sentActive)
        => /\ Includes(db[calls[c1].req].acceptedHospitals, calls[c1].actor)
           /\ Includes(db[calls[c1].req].acceptedHospitals, calls[c2].actor)
           /\ calls[c1].transitioned # calls[c2].transitioned

\* A step of the sweeper's loop.
IsSweepCancel == sweep # <<>> /\ sweep' = Tail(sweep)

\* C7: a sweep leaves unchanged every request that is not expired or is
\* already completed or cancelled (the frame half of the claim).
C7_SweepLeavesOthersUnchanged ==
    [][IsSweepCancel =>
          \A r \in RequestIds :
              (\/ ~(db[r].expiresAt < now)
               \/ db[r].status \in {"completed", "cancelled"})
              => db'[r] = db[r]]_vars

C9_ExpiredStaysCancelled ==
    (\A c \in CallIds :
        calls[c].kind \in {"idle", "accept_request", "donor_response"})
    => \A r \in expiredPublished : db[r].status \notin {"pending", "accepted"}

\* The entries of donor d in a matchedDonors array.
EntriesOf(matched, d) == {k \in 1..Len(matched) : matched[k].donorId = d}

\* The positions of request r in a response history.
AnswersTo(hist, r) == {k \in 1..Len(hist) : hist[k].requestId = r}

Last(S) == CHOOSE k \in S : \A j \in S : j <= k

\* C13: matchedDonors of a request holds at most one entry per donor, and
\* once a donor_response of the donor for the request has been applied the
\* entry shows the response applied last.
C13_OneEntryPerDonor ==
    \A r \in RequestIds, d \in Donors :
        LET matched == db[r].matchedDonors
            answers == AnswersTo(responseHistory[d], r)
        IN  /\ Cardinality(EntriesOf(matched, d)) <= 1
            /\ answers # {} =>
                 \E k \in EntriesOf(matched, d) :
                    matched[k].response = "accepted"
                        <=> responseHistory[d][Last(answers)].responded

\* The donor_response calls of donor d that are answered with success in
\* the step.
Answered(d) ==
    {c \in CallIds : /\ calls[c].kind = "donor_response" /\ calls[c].actor = d
                     /\ calls[c].pc = "write"
                     /\ calls'[c].pc = "done" /\ calls'[c].reply = "ok"}

\* C14: a step that handles a donor_response of donor d with success appends
\* one entry [requestId, responded = (response is accepted)] to the end of
\* d's responseHistory; every other step leaves d's responseHistory as it is.
C14_HistoryAppendOnly ==
    [][\A d \in Donors :
          IF Answered(d) # {}
          THEN \E c \in Answered(d) :
                  responseHistory'[d] =
                      Append(responseHistory[d],
                             [requestId |-> calls[c].req,
                              responded |-> calls[c].arg = "accepted"])
          ELSE responseHistory'[d] = responseHistory[d]]_vars

\* A donor has answered twice, once accepting and once declining.
C14_Witness ==
    \E d \in Donors :
        /\ Len(responseHistory[d]) = 2
        /\ responseHistory[d][1].responded # responseHistory[d][2].responded
        /\ \A c \in CallIds : calls[c].pc = "done" /\ calls[c].reply = "ok"

(***************************************************************************)
(* Claims about the connection registry and the rooms, checked under       *)
(* SpecConn.                                                               *)
(***************************************************************************)
Pending(s) == \E u \in UpdateIds : locUpdates[u].pc = "pending" /\ locUpdates[u].sock = s

ClusterRoomsOf(s) == {room \in sockets[s].rooms : "cluster" \in DOMAIN room}

RegistryOf(a) == IF a \in Hospitals THEN connectedHospitals[a] ELSE connectedDonors[a]

\* C11: a connection that is open and has no update_location under way is
\* in exactly one cluster room, the room of the grid cell of the point of
\* the last update_location it sent (of its stored point at connect if it
\* sent none), and is in its identity room.
C11_HomedAtLastPoint ==
    \A s \in SocketIds :
        sockets[s].state = "open" /\ ~Pending(s) =>
            /\ ClusterRoomsOf(s) =
                 {ClusterRoom(sockets[s].userType,
                              getLocationCluster(sockets[s].lastPoint))}
            /\ IdentityRoom(sockets[s].userType, sockets[s].id) \in sockets[s].rooms

\* C12: a disconnect step leaves no registry entry for the identity of the
\* closed connection and changes no other entry of either map.
C12_DisconnectRemovesOnlyItsEntry ==
    [][\A s \in SocketIds :
          Disconnect(s) =>
              LET a == sockets[s].id
              IN  /\ RegistryOf(a)' = Null
                  /\ \A b \in (Donors \cup Hospitals) \ {a} :
                        RegistryOf(b)' = RegistryOf(b)]_vars

\* A connection has closed while another identity is still registered.
C12_Witness ==
    \E s, t \in SocketIds :
        /\ sockets[s].state = "closed" /\ sockets[t].state = "open"
        /\ sockets[t].id # sockets[s].id
        /\ RegistryOf(sockets[s].id) = Null
        /\ RegistryOf(sockets[t].id) = t

\* C27: when one turn of a sweep fails, the sweep goes on with every other
\* request it found (each is then set to cancelled and announced by its own
\* turn), and the next sweep can start once the work of this one is done.
C27_SweepFailureIsIsolated ==
    [][SweepFail => sweep' = Tail(sweep)]_vars

\* C29: a request with status accepted has a hospitalId and a non-empty
\* acceptedHospitals, and a hospitalId that is set is in acceptedHospitals
\* and is the id of a verified hospital.
C29_AcceptedHasVerifiedHospital ==
    \A r \in RequestIds :
        /\ db[r].status = "accepted" =>
              db[r].hospitalId # Null /\ db[r].acceptedHospitals # <<>>
        /\ db[r].hospitalId # Null =>
              /\ Includes(db[r].acceptedHospitals, db[r].hospitalId)
              /\ db[r].hospitalId \in Hospitals

\* C30: a step of an accept_request handler that runs on a donor's
\* connection leaves status, hospitalId and acceptedHospitals of the request
\* as they were and publishes no request_accepted.
C30_DonorAcceptChangesNothing ==
    [][\A c \in CallIds :
          (/\ calls[c].kind = "accept_request" /\ calls[c].actor = Null
           /\ calls'[c] # calls[c])
          => /\ db'[calls[c].req].status = db[calls[c].req].status
             /\ db'[calls[c].req].hospitalId = db[calls[c].req].hospitalId
             /\ db'[calls[c].req].acceptedHospitals = db[calls[c].req].acceptedHospitals
             /\ \A e \in emitted' : e.event # "request_accepted"]_vars

\* The open connections of identity a.
LiveOf(a) == {s \in SocketIds : sockets[s].state = "open" /\ sockets[s].id = a}

\* C28: an identity with an open connection has a registry entry, and the
\* entry is the most recently made of its open connections.
C28_RegistryPointsAtLatestLive ==
    \A a \in Donors \cup Hospitals :
        LiveOf(a) # {} =>
            /\ RegistryOf(a) \in LiveOf(a)
            /\ \A s \in LiveOf(a) : sockets[s].seq <= sockets[RegistryOf(a)].seq

(***************************************************************************)
(* Claims about the creation of a request and Candidate Retrieval, checked *)
(* under SpecRetr and SpecRank.                                            *)
(***************************************************************************)
\* The step in which emergency_request asks for donors and notifies them.
IsEmergencyNotify ==
    creation.pc = "saved" /\ creation.via = "socket" /\ creation'.pc = "done"

\* The step in which POST /create runs Candidate Retrieval.
IsCreateMatch ==
    creation.pc = "saved" /\ creation.via = "rest" /\ creation'.pc = "done"

FoundIds(found) == {found[k].donorId : k \in 1..Len(found)}

DonorOf(coll, d) == coll[IndexOf(coll, d)]

\* C15: the donors sent blood_needed by emergency_request are the donors
\* Candidate Retrieval returns for the new request, and they are the donors
\* of the request's matchedDonors.
C15_NotifiedAreRetrievedAndMatched ==
    [][IsEmergencyNotify =>
          LET told == {e.room.id : e \in {x \in emitted' : x.event = "blood_needed"}}
              retrieved == findMatchingDonors(creation.bloodRequest, donorDb, now,
                                              creation'.queryFailed)
          IN  /\ told = FoundIds(retrieved)
              /\ told = DonorIdsOf(db'[1].matchedDonors)]_vars

\* C16: what findMatchingDonors returned is sorted by matchScore, highest
\* first, is no longer than the cap of the urgency, holds donors of the query
\* result with their scores, each once, leaves a donor of the query result
\* out only when the cap is reached, and no donor left out scores higher
\* than a returned one.
C16_TopScoredWithinCap ==
    creation.pc = "done" /\ ~creation.queryFailed =>
        LET found == creation.found
            urgency == creation.bloodRequest.urgency
            pool == GeoQuery(donorDb, searchRadius(urgency), now)
            ScoreOf(donor) == calculateMatchScore(donor, creation.bloodRequest, now)
            Cap == IF urgency = "critical" THEN 10
                   ELSE IF urgency = "urgent" THEN 8 ELSE 6
        IN  /\ \A k \in 1..(Len(found) - 1) :
                  found[k].matchScore >= found[k + 1].matchScore
            /\ Len(found) <= Cap
            /\ \A j, k \in 1..Len(found) : j # k => found[j].donorId # found[k].donorId
            /\ \A k \in 1..Len(found) :
                  \E i \in 1..Len(pool) :
                      /\ pool[i].id = found[k].donorId
                      /\ found[k].matchScore = ScoreOf(pool[i])
            /\ \A i \in 1..Len(pool) :
                  pool[i].id \notin FoundIds(found) =>
                      /\ Len(found) = Cap
                      /\ \A k \in 1..Len(found) :
                            found[k].matchScore >= ScoreOf(pool[i])

\* A critical retrieval returned ten donors of two different scores and left
\* one out.
C16_Witness ==
    /\ creation.pc = "done" /\ ~creation.queryFailed
    /\ creation.bloodRequest.urgency = "critical"
    /\ Len(creation.found) = 10
    /\ Len(donorDb) > 10
    /\ creation.found[1].matchScore > creation.found[10].matchScore

\* An acknowledged update_availability(false) of donor d that no later
\* update_availability(true) of d has followed.
SwitchedOff(d) ==
    \E u \in AvailIds :
        /\ availUpdates[u].pc = "done" /\ availUpdates[u].donor = d
        /\ ~availUpdates[u].available
        /\ \A w \in AvailIds :
              w > u /\ availUpdates[w].pc # "idle" /\ availUpdates[w].donor = d
                 => ~availUpdates[w].available

\* C17: every donor Candidate Retrieval returns is available at the time of
\* the query, has never donated or donated at least 56 days before, and is
\* within the radius of the urgency (50, 40, 30 km); a donor whose
\* update_availability(false) was acknowledged and not followed by a true one
\* is not returned.
C17_ReturnedAreEligibleAndNear ==
    [][IsCreateMatch =>
          LET found == creation'.found
              urgency == creation.bloodRequest.urgency
              Radius == IF urgency = "critical" THEN 50
                        ELSE IF urgency = "urgent" THEN 40 ELSE 30
          IN  /\ \A k \in 1..Len(found) :
                    LET donor == DonorOf(donorDb, found[k].donorId)
                    IN  /\ donor.available
                        /\ \/ donor.lastDonation = <<>>
                           \/ now - donor.lastDonation[1] >= 56
                        /\ donor.distance <= Radius * 1000
              /\ \A d \in Donors : SwitchedOff(d) => d \notin FoundIds(found)]_vars

\* A retrieval has returned one donor and left out the other, who is near
\* enough and rested and whose update_availability(false) was acknowledged.
C17_Witness ==
    /\ creation.pc = "done" /\ creation.via = "rest" /\ ~creation.queryFailed
    /\ creation.found # <<>>
    /\ \E d \in Donors :
          /\ SwitchedOff(d)
          /\ d \notin FoundIds(creation.found)
          /\ DonorOf(donorDb, d).distance
                <= searchRadius(creation.bloodRequest.urgency) * 1000
          /\ RestedEnough(DonorOf(donorDb, d), now)

\* C18: no donor Candidate Retrieval returns has a blood type that cannot
\* serve the blood type of the request.
C18_ReturnedAreCompatible ==
    [][IsCreateMatch =>
          \A k \in 1..Len(creation'.found) :
              creation.bloodRequest.bloodType \in
                  bloodCompatibility(DonorOf(donorDb, creation'.found[k].donorId).bloodType)]_vars

\* C19: when the geo query of Candidate Retrieval fails during POST /create,
\* the result is empty, the answer differs from the answer to a retrieval
\* that found no donor, and the request stays pending with no matched donor.
C19_FailedRetrievalIsSurfaced ==
    [][IsCreateMatch /\ creation'.queryFailed =>
          /\ creation'.found = <<>>
          /\ creation'.reply # CreatedReply(<<>>)
          /\ db'[1].status = "pending"
          /\ db'[1].matchedDonors = <<>>]_vars

Antigens(bloodType) ==
    CASE bloodType = "O-" -> {}
      [] bloodType = "O+" -> {"Rh"}
      [] bloodType = "A-" -> {"A"}
      [] bloodType = "A+" -> {"A", "Rh"}
      [] bloodType = "B-" -> {"B"}
      [] bloodType = "B+" -> {"B", "Rh"}
      [] bloodType = "AB-" -> {"A", "B"}
      [] bloodType = "AB+" -> {"A", "B", "Rh"}

Serves(donorBloodType, requestBloodType) ==
    /\ donorBloodType \in BloodTypes
    /\ requestBloodType \in BloodTypes
    /\ Antigens(donorBloodType) \subseteq Antigens(requestBloodType)

\* C21: the blood-type component of every call is 100 for an exact type
\* match; for a donor type other than the requested one it is 95 for an O-
\* donor, 90 for an O+ donor and 85 for any other donor when the donor type
\* serves the requested type, and 0 when it does not, an unknown donor type
\* included.
C21_BloodTypeComponent ==
    \A k \in 1..Len(scores) :
        LET donorType == scoreInput.donor.bloodType
            requestType == scoreInput.bloodRequest.bloodType
            component == scores[k].compatibilityScore
        IN  /\ donorType = requestType => component = 100
            /\ donorType # requestType /\ Serves(donorType, requestType) =>
                  component = (IF donorType = "O-" THEN 95
                               ELSE IF donorType = "O+" THEN 90 ELSE 85)
            /\ donorType # requestType /\ ~Serves(donorType, requestType) =>
                  component = 0

\* An A+ donor scored against a request for B+: the component is 0.
C21_Witness ==
    /\ Len(scores) >= 1
    /\ scoreInput.donor.bloodType = "A+"
    /\ scoreInput.bloodRequest.bloodType = "B+"
    /\ scores[1].compatibilityScore = 0

\* The entries of a response history the component looks at, the number of
\* positive ones among them, and the bonus for the mean response time (an
\* entry without a time counts as 30 minutes).
RecentOf(history) ==
    [k \in 1..Min(10, Len(history)) |-> history[Len(history) - Min(10, Len(history)) + k]]

PositiveCount(recent) == Cardinality({k \in 1..Len(recent) : recent[k].responded})

RECURSIVE TimeTotal(_)
TimeTotal(recent) ==
    IF recent = <<>> THEN 0
    ELSE (IF Head(recent).responseTime = 0 THEN 30 ELSE Head(recent).responseTime)
         + TimeTotal(Tail(recent))

SpeedBonus(recent) ==
    LET total == TimeTotal(recent)
        n == Len(recent)
    IN  IF total <= 5 * n THEN 30
        ELSE IF total <= 10 * n THEN 25
        ELSE IF total <= 15 * n THEN 20
        ELSE IF total <= 20 * n THEN 15
        ELSE IF total <= 30 * n THEN 10
        ELSE 0

\* C26 as stated: with a non-empty response history the component is
\* min(100, (positiveCount / 10) * 70 + speedBonus) over the most recent 10
\* entries, also with fewer than 10 entries; with no history it is 50.
C26_RateOverTen ==
    \A k \in 1..Len(scores) :
        LET history == scoreInput.donor.responseHistory
            recent == RecentOf(history)
        IN  scores[k].responseScore =
                IF history = <<>> THEN 50 * ScoreUnit
                ELSE Min(100 * ScoreUnit,
                         (PositiveCount(recent) * 70 * ScoreUnit) \div 10
                            + SpeedBonus(recent) * ScoreUnit)

\* C26 amended: the rate is positiveCount over the number of entries used,
\* which is 10 only when the history has at least 10 entries.
C26_RateOverEntriesUsed ==
    \A k \in 1..Len(scores) :
        LET history == scoreInput.donor.responseHistory
            recent == RecentOf(history)
        IN  scores[k].responseScore =
                IF history = <<>> THEN 50 * ScoreUnit
                ELSE Min(100 * ScoreUnit,
                         (PositiveCount(recent) * 70 * ScoreUnit) \div Len(recent)
                            + SpeedBonus(recent) * ScoreUnit)

\* A donor with two entries, one positive, mean time above 30 minutes: the
\* component is 35, half of 70.
C26_Witness ==
    /\ Len(scores) >= 1
    /\ Len(scoreInput.donor.responseHistory) = 2
    /\ PositiveCount(scoreInput.donor.responseHistory) = 1
    /\ scores[1].responseScore = 35 * ScoreUnit

(***************************************************************************)
(* The end-to-end scenario, checked under SpecScenario.                    *)
(***************************************************************************)
\* C22: when Candidate Retrieval runs for the critical O+ request while donor
\* A and donor B are both available, it returns A first with a match score
\* of 100 points and B second with a strictly smaller score.
C22_ScenarioRanksAFirst ==
    [][IsCreateMatch /\ ~creation'.queryFailed
          /\ creation.bloodRequest = [bloodType |-> "O+", urgency |-> "critical"]
          /\ (\A k \in 1..Len(donorDb) : donorDb[k].available)
       => /\ Len(creation'.found) = 2
          /\ creation'.found[1] = [donorId |-> "D1", matchScore |-> Hundred]
          /\ creation'.found[2].donorId = "D2"
          /\ creation'.found[2].matchScore < Hundred]_vars

\* The critical request was matched with both donors, A first at 100 points.
C22_Witness ==
    /\ creation.pc = "done" /\ ~creation.queryFailed
    /\ creation.bloodRequest = [bloodType |-> "O+", urgency |-> "critical"]
    /\ Len(creation.found) = 2
    /\ creation.found[1] = [donorId |-> "D1", matchScore |-> Hundred]
    /\ creation.found[2].donorId = "D2"
    /\ creation.found[2].matchScore < Hundred

====
